---- MODULE Spec2Model ----
(***************************************************************************)
(* Soliton code generator: metadata registry, relation analyzer, ID-field  *)
(* identification and the orchestration in main.                           *)
(*                                                                         *)
(* Go strings are modelled as sequences of character codes, so that the    *)
(* byte-wise comparison (<), toSnakeCase, prefix trimming and splitting   *)
(* are computed the way the code computes them.                            *)
(***************************************************************************)
EXTENDS Integers, Sequences, FiniteSets, TLC

VARIABLES
    model,            \* the model directory: the declarations in it, or Malformed
    pc,               \* position of main
    aggregates,       \* main: aggregates (result of ParseDirectory)
    regIdx,           \* main: index of the registration loop
    regAggregates,    \* registry.aggregates : name -> aggregate
    relations,        \* registry.relations
    manyToManyTables, \* registry.manyToManyTables
    enums,            \* registry.enums
    analyzeErr,       \* error returned by AnalyzeRelations (Nil when none)
    visited,          \* aggregates AnalyzeRelations visited, in visiting order
    validationErrors, \* main: validationErrors
    phases,           \* phase-A steps of main completed so far, in order
    faults,           \* generator calls the environment still lets fail in this run
    calls,            \* generator invocations so far: <<kind, target>> -> count
    failed,           \* generator invocations that returned an error
    counts,           \* main: entityCount, enumCount, doCount, ...
    exitCode,         \* process exit status (Running while main runs)
    idFields,         \* identifyIDField: the field list given
    idResult,         \* identifyIDField: its result (Unset before the call)
    file,             \* entity generator: the lines of the target source file
    original,         \* entity generator: the target file before the first run
    content,          \* entity generator: the generated lines
    runs,             \* entity generator: runs on the target file so far
    spliceErr,        \* entity generator: the last run returned an error
    store,            \* framework: the table of one aggregate, id -> visible row
    lockColumn,       \* framework: the Version column of D is an optimistic-lock column
    procs,            \* framework: the call each caller makes and its position
    dbFaults          \* framework: database statements the environment still lets fail

vars == <<model, pc, aggregates, regIdx, regAggregates, relations,
          manyToManyTables, enums, analyzeErr, visited, validationErrors,
          phases, faults, calls, failed, counts, exitCode,
          idFields, idResult, file, original, content, runs, spliceErr,
          store, lockColumn, procs, dbFaults>>

(***************************************************************************)
(* Bounds of the model                                                     *)
(***************************************************************************)
MaxAggs == 2        \* declarations in the model directory
MaxRefs == 2        \* aggregate-level +soliton:ref annotations per declaration
MaxFields == 1      \* fields of the declaration that carries fields
MaxFailures == 1    \* generator invocations that fail in one run
MaxIDFields == 3    \* fields of a struct given to identifyIDField
MaxLines == 3       \* lines of a target file before the first run
MaxContent == 2     \* generated lines of one run
MaxRuns == 3        \* runs of the entity generator on one file
MaxCollects == 2    \* CollectEnums calls on one registry
MaxCallers == 2     \* concurrent callers of the repository and the service
MaxRecords == 1     \* ids of the table
MaxVersion == 2     \* versions stored before the calls and carried by the entities
MaxDBErrors == 1    \* database statements that fail

(***************************************************************************)
(* Strings                                                                 *)
(***************************************************************************)
sRole == <<82, 111, 108, 101>>                              \* "Role"
sUserID == <<85, 115, 101, 114, 73, 68>>                    \* "UserID"
sOrderItem == <<79, 114, 100, 101, 114, 73, 116, 101, 109>> \* "OrderItem"
sOrder == <<79, 114, 100, 101, 114>>                        \* "Order"
sWarehouse == <<87, 97, 114, 101, 104, 111, 117, 115, 101>> \* "Warehouse"
sModelRole == <<109, 111, 100, 101, 108, 46>> \o sRole      \* "model.Role"
sInt64 == <<105, 110, 116, 54, 52>>                         \* "int64"
sString == <<115, 116, 114, 105, 110, 103>>                 \* "string"
sTimeTime == <<116, 105, 109, 101, 46, 84, 105, 109, 101>>  \* "time.Time"
sID == <<73, 68>>                                           \* "ID"
sOrderID == <<79, 114, 100, 101, 114, 73, 68>>              \* "OrderID"
sName == <<78, 97, 109, 101>>                               \* "Name"
sItems == <<73, 116, 101, 109, 115>>                        \* "Items"
sTagId == <<105, 100>>                                      \* "id"
sTagOrderNo == <<111, 114, 100, 101, 114, 95, 110, 111>>    \* "order_no"
sIdSuffix == <<95, 105, 100>>                               \* "_id"
sUnderscore == <<95>>                                       \* "_"
sStar == <<42>>                                             \* "*"
sBrackets == <<91, 93>>                                     \* "[]"
sDot == <<46>>                                              \* "."
sActive == <<97, 99, 116, 105, 118, 101>>                   \* "active"
sGoExt == <<46, 103, 111>>                                  \* ".go"
sModelGo == <<109, 111, 100, 101, 108, 46, 103, 111>>             \* "model.go"
sStatus == <<83, 116, 97, 116, 117, 115>>                  \* "Status"
sItemStatus == <<73, 116, 101, 109>> \o sStatus              \* "ItemStatus"
sEmpty == <<>>                                              \* ""

Nil == <<>>            \* a nil pointer
Ptr(x) == <<x>>        \* a non-nil pointer to x
Deref(p) == p[1]

\* Go's == and < on strings: byte-wise, a proper prefix is smaller.
RECURSIVE StrLess(_, _)
StrLess(a, b) ==
    IF b = <<>> THEN FALSE
    ELSE IF a = <<>> THEN TRUE
    ELSE IF Head(a) < Head(b) THEN TRUE
    ELSE IF Head(a) > Head(b) THEN FALSE
    ELSE StrLess(Tail(a), Tail(b))

\* strings.HasPrefix / strings.HasSuffix / strings.TrimPrefix
HasPrefix(s, p) == Len(s) >= Len(p) /\ SubSeq(s, 1, Len(p)) = p
HasSuffix(s, p) == Len(s) >= Len(p) /\ SubSeq(s, Len(s) - Len(p) + 1, Len(s)) = p
TrimPrefix(s, p) == IF HasPrefix(s, p) THEN SubSeq(s, Len(p) + 1, Len(s)) ELSE s

\* strings.ToLower on one character
ToLowerChar(r) == IF r >= 65 /\ r <= 90 THEN r + 32 ELSE r
ToLower(s) == [i \in 1..Len(s) |-> ToLowerChar(s[i])]

\* parts[len(parts)-1] of strings.Split(s, "."): the text after the last dot
RECURSIVE LastPart(_)
LastPart(s) ==
    IF \E i \in 1..Len(s) : s[i] = sDot[1]
    THEN LastPart(SubSeq(s, (CHOOSE i \in 1..Len(s) : s[i] = sDot[1]) + 1, Len(s)))
    ELSE s

(***************************************************************************)
(* analyzer: pure helpers                                                  *)
(***************************************************************************)
\* toSnakeCase: an underscore before every 'A'..'Z' at index > 0, then lower case
RECURSIVE SnakeRunes(_, _)
SnakeRunes(s, i) ==
    IF i > Len(s) THEN <<>>
    ELSE (IF i > 1 /\ s[i] >= 65 /\ s[i] <= 90 THEN sUnderscore ELSE <<>>)
         \o <<s[i]>> \o SnakeRunes(s, i + 1)

\* mutant: the underscore also goes before an uppercase first letter
toSnakeCase_NoIndexGuard(s) ==
    ToLower((IF Len(s) > 0 /\ s[1] >= 65 /\ s[1] <= 90 THEN sUnderscore ELSE <<>>)
            \o SnakeRunes(s, 1))

toSnakeCase(s) == ToLower(SnakeRunes(s, 1))

basicTypes ==
    { <<105, 110, 116>>, <<105, 110, 116, 51, 50>>, sInt64,       \* int int32 int64
      <<117, 105, 110, 116>>, <<117, 105, 110, 116, 51, 50>>,     \* uint uint32
      <<117, 105, 110, 116, 54, 52>>,                             \* uint64
      <<102, 108, 111, 97, 116, 51, 50>>,                         \* float32
      <<102, 108, 111, 97, 116, 54, 52>>,                         \* float64
      sString, <<98, 111, 111, 108>>, <<98, 121, 116, 101>>,      \* string bool byte
      <<114, 117, 110, 101>> }                                    \* rune

isBasicType(typeName) ==
    LET t == TrimPrefix(typeName, sStar)
    IN  IF t = sTimeTime THEN TRUE ELSE t \in basicTypes

extractTargetAggregate(typeName) ==
    LastPart(TrimPrefix(TrimPrefix(typeName, sBrackets), sStar))

\* mutant: a repeated field is classified like a singular one
identifyRelationType_IgnoreSlice(field) ==
    IF field.IsRef /\ isBasicType(field.Type) THEN "Ref"
    ELSE IF field.IsEntity THEN "OneToOne" ELSE "None"

\* identifyRelationType: "None" stands for the -1 of the code
identifyRelationType(field) ==
    IF field.IsRef /\ isBasicType(field.Type) THEN "Ref"
    ELSE IF field.IsEntity
         THEN (IF field.IsSlice THEN "OneToMany" ELSE "OneToOne")
         ELSE "None"

\* mutant: a field relation is recorded as the owning side
RECURSIVE FieldRelationsFrom_OwnerSide(_, _)
FieldRelationsFrom_OwnerSide(agg, i) ==
    IF i > Len(agg.Fields) THEN <<>>
    ELSE LET field == agg.Fields[i]
             relationType == identifyRelationType(field)
             here == IF isBasicType(field.Type) \/ relationType = "None" THEN <<>>
                     ELSE << [ SourceAggregate |-> agg.Name,
                               TargetAggregate |-> extractTargetAggregate(field.Type),
                               Type |-> relationType,
                               Field |-> Ptr(field),
                               IsOwner |-> TRUE ] >>
         IN  here \o FieldRelationsFrom_OwnerSide(agg, i + 1)

\* analyzeAggregateRelations: one relation per non-basic field that
\* identifyRelationType recognises, in field order
RECURSIVE FieldRelationsFrom(_, _)
FieldRelationsFrom(agg, i) ==
    IF i > Len(agg.Fields) THEN <<>>
    ELSE LET field == agg.Fields[i]
             relationType == identifyRelationType(field)
             here == IF isBasicType(field.Type) THEN <<>>
                     ELSE IF relationType # "None"
                          THEN << [ SourceAggregate |-> agg.Name,
                                    TargetAggregate |-> extractTargetAggregate(field.Type),
                                    Type |-> relationType,
                                    Field |-> Ptr(field),
                                    IsOwner |-> FALSE ] >>
                          ELSE <<>>
         IN  here \o FieldRelationsFrom(agg, i + 1)

analyzeAggregateRelations(agg) == FieldRelationsFrom(agg, 1)

\* mutant: both sides of a mutual pair create the relation
RECURSIVE ManyToManyFrom_NoOrderGuard(_, _, _)
ManyToManyFrom_NoOrderGuard(agg, reg, i) ==
    IF i > Len(agg.Refs) THEN [rels |-> <<>>, err |-> Nil]
    ELSE IF agg.Refs[i] \notin DOMAIN reg
         THEN [rels |-> <<>>,
               err |-> Ptr([Aggregate |-> agg.Name, Missing |-> agg.Refs[i]])]
         ELSE LET rest == ManyToManyFrom_NoOrderGuard(agg, reg, i + 1)
                  here == IF \E j \in 1..Len(reg[agg.Refs[i]].Refs) :
                                reg[agg.Refs[i]].Refs[j] = agg.Name
                          THEN << [ SourceAggregate |-> agg.Name,
                                    TargetAggregate |-> agg.Refs[i],
                                    Type |-> "ManyToMany",
                                    Field |-> Nil,
                                    IsOwner |-> TRUE ] >>
                          ELSE <<>>
              IN  [rels |-> here \o rest.rels, err |-> rest.err]

\* analyzeManyToManyRelations from the i-th aggregate-level ref on:
\* the relations added and the error returned (Nil when none)
RECURSIVE ManyToManyFrom(_, _, _)
ManyToManyFrom(agg, reg, i) ==
    IF i > Len(agg.Refs) THEN [rels |-> <<>>, err |-> Nil]
    ELSE LET refAggregateName == agg.Refs[i]
         IN  IF refAggregateName \notin DOMAIN reg
             THEN [rels |-> <<>>,
                   err |-> Ptr([Aggregate |-> agg.Name, Missing |-> refAggregateName])]
             ELSE LET targetAgg == reg[refAggregateName]
                      isBidirectional ==
                          \E j \in 1..Len(targetAgg.Refs) : targetAgg.Refs[j] = agg.Name
                      here == IF isBidirectional /\ StrLess(agg.Name, refAggregateName)
                              THEN << [ SourceAggregate |-> agg.Name,
                                        TargetAggregate |-> refAggregateName,
                                        Type |-> "ManyToMany",
                                        Field |-> Nil,
                                        IsOwner |-> TRUE ] >>
                              ELSE <<>>
                      rest == ManyToManyFrom(agg, reg, i + 1)
                  IN  [rels |-> here \o rest.rels, err |-> rest.err]

\* mutant: a +soliton:manyToMany aggregate is analysed like any other
analyzeManyToManyRelations_IgnoreFlag(agg, reg) == ManyToManyFrom(agg, reg, 1)

analyzeManyToManyRelations(agg, reg) ==
    IF agg.IsManyToMany THEN [rels |-> <<>>, err |-> Nil]
    ELSE ManyToManyFrom(agg, reg, 1)

\* mutant: the error of an aggregate is kept but the loop goes on
RECURSIVE AnalyzeFrom_ContinueOnError(_, _, _)
AnalyzeFrom_ContinueOnError(order, reg, i) ==
    IF i > Len(order) THEN [rels |-> <<>>, err |-> Nil, visited |-> <<>>]
    ELSE LET agg == reg[order[i]]
             m2m == analyzeManyToManyRelations(agg, reg)
             rest == AnalyzeFrom_ContinueOnError(order, reg, i + 1)
         IN  [rels |-> analyzeAggregateRelations(agg) \o m2m.rels \o rest.rels,
              err |-> IF m2m.err # Nil THEN m2m.err ELSE rest.err,
              visited |-> <<order[i]>> \o rest.visited]

\* mutant: only the aggregate visited first is analysed
AnalyzeFrom_FirstVisitedOnly(order, reg, i) ==
    IF i > Len(order) THEN [rels |-> <<>>, err |-> Nil, visited |-> <<>>]
    ELSE LET agg == reg[order[i]]
             m2m == analyzeManyToManyRelations(agg, reg)
         IN  [rels |-> analyzeAggregateRelations(agg) \o m2m.rels, err |-> m2m.err,
              visited |-> <<order[i]>>]

\* AnalyzeRelations over the aggregates in the order GetAll() returned them:
\* the relations appended, the error returned and the aggregates visited
RECURSIVE AnalyzeFrom(_, _, _)
AnalyzeFrom(order, reg, i) ==
    IF i > Len(order) THEN [rels |-> <<>>, err |-> Nil, visited |-> <<>>]
    ELSE LET agg == reg[order[i]]
             fieldRels == analyzeAggregateRelations(agg)
             m2m == analyzeManyToManyRelations(agg, reg)
         IN  IF m2m.err # Nil
             THEN [rels |-> fieldRels \o m2m.rels, err |-> m2m.err,
                   visited |-> <<order[i]>>]
             ELSE LET rest == AnalyzeFrom(order, reg, i + 1)
                  IN  [rels |-> fieldRels \o m2m.rels \o rest.rels, err |-> rest.err,
                       visited |-> <<order[i]>> \o rest.visited]

\* createManyToManyTable
createManyToManyTable(relation, reg) ==
    LET swap == ~ StrLess(relation.SourceAggregate, relation.TargetAggregate)
        leftName == IF swap THEN relation.TargetAggregate ELSE relation.SourceAggregate
        rightName == IF swap THEN relation.SourceAggregate ELSE relation.TargetAggregate
        leftAgg == IF relation.SourceAggregate \in DOMAIN reg
                   THEN Ptr(reg[relation.SourceAggregate]) ELSE Nil
        rightAgg == IF relation.TargetAggregate \in DOMAIN reg
                    THEN Ptr(reg[relation.TargetAggregate]) ELSE Nil
    IN  [ TableName |-> toSnakeCase(leftName) \o sUnderscore \o toSnakeCase(rightName),
          LeftAggregate |-> leftName,
          RightAggregate |-> rightName,
          LeftColumn |-> toSnakeCase(leftName) \o sIdSuffix,
          RightColumn |-> toSnakeCase(rightName) \o sIdSuffix,
          LeftIDField |-> IF leftAgg # Nil /\ Deref(leftAgg).IDField # Nil
                          THEN Deref(Deref(leftAgg).IDField).Name ELSE sID,
          RightIDField |-> IF rightAgg # Nil /\ Deref(rightAgg).IDField # Nil
                           THEN Deref(Deref(rightAgg).IDField).Name ELSE sID,
          GenerationType |-> "relation_only" ]

\* GenerateManyToManyTables: the tables appended, one per ManyToMany relation
RECURSIVE TablesFrom(_, _, _)
TablesFrom(rels, reg, i) ==
    IF i > Len(rels) THEN <<>>
    ELSE (IF rels[i].Type = "ManyToMany"
          THEN <<createManyToManyTable(rels[i], reg)>> ELSE <<>>)
         \o TablesFrom(rels, reg, i + 1)

\* mutant: a relation fails when its target is registered
RelationFails_TargetRegistered(relation, reg) ==
    relation.Type # "Ref" /\ relation.TargetAggregate \in DOMAIN reg

\* ValidateRelations: the errors returned. Reading relation.Field.Name of a
\* relation without field is a nil dereference: the run then panics.
RelationFails(relation, reg) ==
    relation.Type # "Ref" /\ relation.TargetAggregate \notin DOMAIN reg

RECURSIVE ErrorsFrom(_, _, _)
ErrorsFrom(rels, reg, i) ==
    IF i > Len(rels) THEN <<>>
    ELSE (IF RelationFails(rels[i], reg) /\ rels[i].Field # Nil
          THEN << [ SourceAggregate |-> rels[i].SourceAggregate,
                    FieldName |-> Deref(rels[i].Field).Name,
                    TargetAggregate |-> rels[i].TargetAggregate ] >>
          ELSE <<>>)
         \o ErrorsFrom(rels, reg, i + 1)

ValidatePanics(rels, reg) ==
    \E i \in 1..Len(rels) : RelationFails(rels[i], reg) /\ rels[i].Field = Nil

(***************************************************************************)
(* parser: ID-field identification                                         *)
(***************************************************************************)
IdentifyIDField(fieldName, dbTag, fieldType) ==
    IF dbTag = sTagId THEN [priority |-> 1, isIDField |-> TRUE]
    ELSE IF fieldName = sID THEN [priority |-> 2, isIDField |-> TRUE]
    ELSE IF HasSuffix(fieldName, sID) /\ Len(fieldName) > 2
         THEN [priority |-> 3, isIDField |-> TRUE]
    ELSE IF fieldType = sInt64 THEN [priority |-> 4, isIDField |-> TRUE]
    ELSE [priority |-> 0, isIDField |-> FALSE]

FieldPriority(field) == IdentifyIDField(field.Name, field.DBTag, field.Type)

\* mutant: of two candidates of equal priority the later one wins
RECURSIVE BestFrom_LastWins(_, _, _)
BestFrom_LastWins(candidates, best, i) ==
    IF i > Len(candidates) THEN best
    ELSE BestFrom_LastWins(candidates,
                  IF FieldPriority(candidates[i]).priority <= FieldPriority(best).priority
                  THEN candidates[i] ELSE best,
                  i + 1)

\* the loop "for _, candidate := range candidates[1:]"
RECURSIVE BestFrom(_, _, _)
BestFrom(candidates, best, i) ==
    IF i > Len(candidates) THEN best
    ELSE BestFrom(candidates,
                  IF FieldPriority(candidates[i]).priority < FieldPriority(best).priority
                  THEN candidates[i] ELSE best,
                  i + 1)

IsCandidate(field) == FieldPriority(field).isIDField

\* mutant: without candidate the first field is selected
identifyIDField_DefaultFirst(fields) ==
    LET candidates == SelectSeq(fields, IsCandidate)
    IN  IF Len(candidates) = 0
        THEN (IF Len(fields) = 0 THEN Nil ELSE Ptr(fields[1]))
        ELSE Ptr(BestFrom(candidates, candidates[1], 2))

identifyIDField(fields) ==
    LET candidates == SelectSeq(fields, IsCandidate)
    IN  IF Len(candidates) = 0 THEN Nil
        ELSE Ptr(BestFrom(candidates, candidates[1], 2))


(***************************************************************************)
(* metadata: the registry                                                  *)
(***************************************************************************)
\* mutant: a name that is registered keeps its first descriptor
Register_FirstWins(reg, agg) ==
    [n \in (DOMAIN reg) \cup {agg.Name} |-> IF n \in DOMAIN reg THEN reg[n] ELSE agg]

\* Register: r.aggregates[agg.Name] = agg
Register(reg, agg) ==
    [n \in (DOMAIN reg) \cup {agg.Name} |-> IF n = agg.Name THEN agg ELSE reg[n]]

\* Get: r.aggregates[name], the nil pointer for a name that is not a key
Get(reg, name) == IF name \in DOMAIN reg THEN Ptr(reg[name]) ELSE Nil

Exists(reg, name) == name \in DOMAIN reg

\* GetAll ranges over a Go map: any order of the registered names
Perms(S) == {o \in [1..Cardinality(S) -> S] : \A i, j \in DOMAIN o : o[i] = o[j] => i = j}

GetAllOrders(reg) == Perms(DOMAIN reg)

\* mutant: every field yields an enum, with or without values
RECURSIVE FieldEnumsFrom_AllFields(_, _)
FieldEnumsFrom_AllFields(agg, i) ==
    IF i > Len(agg.Fields) THEN <<>>
    ELSE << [ Name |-> agg.Name \o agg.Fields[i].Name,
              FieldName |-> agg.Fields[i].Name,
              AggregateName |-> agg.Name,
              Values |-> agg.Fields[i].EnumValues,
              GoType |-> agg.Fields[i].Type ] >>
         \o FieldEnumsFrom_AllFields(agg, i + 1)

\* CollectEnums: the enums appended for the aggregates in the given order
RECURSIVE FieldEnumsFrom(_, _)
FieldEnumsFrom(agg, i) ==
    IF i > Len(agg.Fields) THEN <<>>
    ELSE (IF Len(agg.Fields[i].EnumValues) > 0
          THEN << [ Name |-> agg.Name \o agg.Fields[i].Name,
                    FieldName |-> agg.Fields[i].Name,
                    AggregateName |-> agg.Name,
                    Values |-> agg.Fields[i].EnumValues,
                    GoType |-> agg.Fields[i].Type ] >>
          ELSE <<>>)
         \o FieldEnumsFrom(agg, i + 1)

RECURSIVE EnumsFrom(_, _, _)
EnumsFrom(order, reg, i) ==
    IF i > Len(order) THEN <<>>
    ELSE FieldEnumsFrom(reg[order[i]], 1) \o EnumsFrom(order, reg, i + 1)

(***************************************************************************)
(* The model directories the runs are given                                *)
(***************************************************************************)
SeqUpTo(S, n) == UNION {[1..k -> S] : k \in 0..n}

\* what ParseDirectory builds from one declaration
ParseAggregate(decl) ==
    [ Name |-> decl.Name,
      Fields |-> decl.Fields,
      IsManyToMany |-> decl.IsManyToMany,
      Refs |-> decl.Refs,
      FilePath |-> decl.FilePath,
      IDField |-> identifyIDField(decl.Fields) ]

\* generator.toLowerFirst
toLowerFirst(s) == IF Len(s) = 0 THEN s ELSE <<ToLowerChar(s[1])>> \o Tail(s)

\* the file named after an aggregate, as main prints it
FileOf(n) == toLowerFirst(n) \o sGoExt

\* the declarations that sit in the file named after them
OwnFile(D) == {d \in D : d.FilePath = FileOf(d.Name)}

\* Aggregate-level family: names, +soliton:manyToMany and +soliton:ref(...)
AggNames == {sOrderItem, sRole}

RefDecls ==
    OwnFile([ Name : AggNames, IsManyToMany : BOOLEAN,
              Refs : SeqUpTo(AggNames, MaxRefs), Fields : {<<>>},
              FilePath : {FileOf(n) : n \in AggNames} ])

RefModels == SeqUpTo(RefDecls, MaxAggs)

\* Field-level family: the first declaration carries fields of every shape
FieldAggNames == {sOrder, sRole}
FieldTypes == {sInt64, sTimeTime, sRole, sModelRole, sWarehouse}
FieldName(i) == <<70, 48 + i>>      \* "F1", "F2", ...

FieldShapes ==
    [ Type : FieldTypes, IsSlice : BOOLEAN, IsRef : BOOLEAN, IsEntity : BOOLEAN ]

MakeFields(shapes) ==
    [ i \in 1..Len(shapes) |->
        [ Name |-> FieldName(i), Type |-> shapes[i].Type, DBTag |-> sEmpty,
          IsSlice |-> shapes[i].IsSlice, IsRef |-> shapes[i].IsRef,
          IsEntity |-> shapes[i].IsEntity, EnumValues |-> <<>> ] ]

FieldLists == {MakeFields(sh) : sh \in SeqUpTo(FieldShapes, MaxFields)}

\* an aggregate-level ref to one aggregate, or none
OneRef == {<<>>} \cup {<<n>> : n \in FieldAggNames}

FieldModels ==
    { <<first>> \o rest :
        first \in OwnFile([ Name : FieldAggNames, IsManyToMany : {FALSE},
                            Refs : OneRef, Fields : FieldLists,
                            FilePath : {FileOf(n) : n \in FieldAggNames} ]),
        rest \in SeqUpTo(OwnFile([ Name : FieldAggNames, IsManyToMany : {FALSE},
                                   Refs : OneRef, Fields : {<<>>},
                                   FilePath : {FileOf(n) : n \in FieldAggNames} ]),
                         1) }

\* Family of the whole runs: few declarations; a ref to the other declared
\* name or to the undeclared Warehouse; an entity field of the unregistered
\* type Warehouse, or an entity slice field of type model.Role followed by a
\* field with +soliton:enum values
RunFieldLists ==
    { <<>>,
      MakeFields(<< [Type |-> sWarehouse, IsSlice |-> FALSE, IsRef |-> FALSE,
                     IsEntity |-> TRUE] >>),
      [ MakeFields(<< [Type |-> sModelRole, IsSlice |-> TRUE, IsRef |-> FALSE,
                       IsEntity |-> TRUE],
                      [Type |-> sString, IsSlice |-> FALSE, IsRef |-> FALSE,
                       IsEntity |-> FALSE] >>)
          EXCEPT ![2].EnumValues = <<sActive, sName>> ] }

RunDecls ==
    { d \in OwnFile([ Name : AggNames, IsManyToMany : {FALSE},
                      Refs : {<<>>} \cup {<<n>> : n \in AggNames \cup {sWarehouse}},
                      Fields : RunFieldLists,
                      FilePath : {FileOf(n) : n \in AggNames} ]) :
        d.Refs # <<d.Name>> }

RunModels == SeqUpTo(RunDecls, MaxAggs)

\* Family of the source files: every declaration sits in its own file or in
\* the file model.go that it may share with the others
PathDecls ==
    { d \in [ Name : AggNames, IsManyToMany : {FALSE}, Refs : {<<>>},
              Fields : {<<>>},
              FilePath : {sModelGo} \cup {FileOf(n) : n \in AggNames} ] :
        d.FilePath \in {sModelGo, FileOf(d.Name)} }

PathModels == SeqUpTo(PathDecls, MaxAggs)

\* Family of the business junction aggregates: a declaration with or without
\* +soliton:manyToMany and with a ref to the other name or to the undeclared
\* Warehouse
JunctionDecls ==
    { d \in OwnFile([ Name : AggNames, IsManyToMany : BOOLEAN,
                      Refs : {<<>>} \cup {<<n>> : n \in AggNames \cup {sWarehouse}},
                      Fields : {<<>>},
                      FilePath : {FileOf(n) : n \in AggNames} ]) :
        d.Refs # <<d.Name>> }

JunctionModels == SeqUpTo(JunctionDecls, MaxAggs)

Malformed == [ok |-> FALSE, decls |-> <<>>]
WellFormed(decls) == [ok |-> TRUE, decls |-> decls]

(***************************************************************************)
(* main                                                                    *)
(***************************************************************************)
Running == -1
Global == <<>>          \* target of a generator that runs once for the registry

CounterKinds == {"entity", "enum", "do", "queryField", "convertor",
                 "repoInterface", "repoImpl", "serviceImpl"}

\* the "range registry.GetAll()" loops of main, in program order
RegistryLoops == <<"do", "queryField", "convertor", "repoInterface",
                   "repoImpl", "serviceImpl">>

NotCalled == [called |-> FALSE, field |-> Nil]

\* no target file is looked at
NoSplice ==
    /\ file = <<>>
    /\ original = <<>>
    /\ content = <<>>
    /\ runs = 0
    /\ spliceErr = FALSE

\* no repository is used
NoRepo ==
    /\ store = <<>>
    /\ lockColumn = FALSE
    /\ procs = <<>>
    /\ dbFaults = 0

InitMain(m, f) ==
    /\ model = m
    /\ pc = "parse"
    /\ aggregates = <<>>
    /\ regIdx = 1
    /\ regAggregates = <<>>
    /\ relations = <<>>
    /\ manyToManyTables = <<>>
    /\ enums = <<>>
    /\ analyzeErr = Nil
    /\ visited = <<>>
    /\ validationErrors = <<>>
    /\ phases = <<>>
    /\ faults = f
    /\ calls = <<>>
    /\ failed = {}
    /\ counts = [k \in CounterKinds |-> 0]
    /\ exitCode = Running
    /\ idFields = <<>>
    /\ idResult = NotCalled
    /\ NoSplice
    /\ NoRepo

Directories(models) == {Malformed} \cup {WellFormed(d) : d \in models}

\* whole runs of main; up to MaxFailures generator calls fail
Init == \E m \in Directories(RunModels) : InitMain(m, MaxFailures)

\* the analysis phase over the aggregate-level family
InitRefs == \E m \in Directories(RefModels) : InitMain(m, 0)

\* whole runs of main over the family of the source files
InitPaths == \E m \in Directories(PathModels) : InitMain(m, MaxFailures)

\* whole runs of main over the family of the business junction aggregates,
\* no generator call fails
InitJunction == \E m \in Directories(JunctionModels) : InitMain(m, 0)

\* the analysis phase over the field-level family
InitFields == \E m \in Directories(FieldModels) : InitMain(m, 0)

genVars == <<faults, calls, failed, counts>>
regVars == <<regAggregates, relations, manyToManyTables, enums>>
idVars == <<idFields, idResult>>
spliceVars == <<file, original, content, runs, spliceErr>>
repoVars == <<store, lockColumn, procs, dbFaults>>

\* aggregates, err := astParser.ParseDirectory(modelDir)
ParseDirectory ==
    /\ pc = "parse"
    /\ IF model.ok
       THEN /\ aggregates' = [i \in 1..Len(model.decls) |-> ParseAggregate(model.decls[i])]
            /\ pc' = "register"
            /\ exitCode' = exitCode
       ELSE /\ aggregates' = aggregates
            /\ pc' = "fatal"
            /\ exitCode' = 1
    /\ UNCHANGED <<model, regIdx, regVars, analyzeErr, visited, validationErrors,
                   phases, genVars, idVars, spliceVars, repoVars>>

\* for _, agg := range aggregates { registry.Register(agg) }
RegisterNext ==
    /\ pc = "register"
    /\ regIdx <= Len(aggregates)
    /\ regAggregates' = Register(regAggregates, aggregates[regIdx])
    /\ regIdx' = regIdx + 1
    /\ UNCHANGED <<model, pc, aggregates, relations, manyToManyTables, enums,
                   analyzeErr, visited, validationErrors, phases, genVars,
                   exitCode, idVars, spliceVars, repoVars>>

RegisterDone ==
    /\ pc = "register"
    /\ regIdx > Len(aggregates)
    /\ pc' = "analyze"
    /\ phases' = Append(phases, "register")
    /\ UNCHANGED <<model, aggregates, regIdx, regVars, analyzeErr, visited,
                   validationErrors, genVars, exitCode, idVars, spliceVars, repoVars>>

\* relationAnalyzer.AnalyzeRelations(), log.Fatalf on error
AnalyzeRelations ==
    /\ pc = "analyze"
    /\ \E order \in GetAllOrders(regAggregates) :
         LET r == AnalyzeFrom(order, regAggregates, 1)
         IN  /\ relations' = relations \o r.rels
             /\ analyzeErr' = r.err
             /\ visited' = r.visited
             /\ IF r.err # Nil
                THEN /\ pc' = "fatal"
                     /\ exitCode' = 1
                     /\ phases' = phases
                ELSE /\ pc' = "junction"
                     /\ exitCode' = exitCode
                     /\ phases' = Append(phases, "analyze")
    /\ UNCHANGED <<model, aggregates, regIdx, regAggregates, manyToManyTables,
                   enums, validationErrors, genVars, idVars, spliceVars, repoVars>>

\* mutant: generation starts right after junction synthesis
GenerateManyToManyTables_ThenGenerate ==
    /\ pc = "junction"
    /\ manyToManyTables' = manyToManyTables \o TablesFrom(relations, regAggregates, 1)
    /\ pc' = "sql"
    /\ phases' = Append(phases, "junction")
    /\ UNCHANGED <<model, aggregates, regIdx, regAggregates, relations, enums,
                   analyzeErr, visited, validationErrors, genVars, exitCode, idVars, spliceVars, repoVars>>

\* relationAnalyzer.GenerateManyToManyTables() (always returns nil)
GenerateManyToManyTables ==
    /\ pc = "junction"
    /\ manyToManyTables' = manyToManyTables \o TablesFrom(relations, regAggregates, 1)
    /\ pc' = "validate"
    /\ phases' = Append(phases, "junction")
    /\ UNCHANGED <<model, aggregates, regIdx, regAggregates, relations, enums,
                   analyzeErr, visited, validationErrors, genVars, exitCode, idVars, spliceVars, repoVars>>

\* mutant: a validation error ends the run
ValidateRelations_Strict ==
    /\ pc = "validate"
    /\ validationErrors' = ErrorsFrom(relations, regAggregates, 1)
    /\ pc' = IF validationErrors' # <<>> THEN "fatal" ELSE "enums"
    /\ exitCode' = IF validationErrors' # <<>> THEN 1 ELSE exitCode
    /\ phases' = Append(phases, "validate")
    /\ UNCHANGED <<model, aggregates, regIdx, regVars, analyzeErr, visited,
                   genVars, idVars, spliceVars, repoVars>>

\* validationErrors := relationAnalyzer.ValidateRelations(); the errors are printed
ValidateRelations ==
    /\ pc = "validate"
    /\ IF ValidatePanics(relations, regAggregates)
       THEN /\ pc' = "panic"
            /\ exitCode' = 2
            /\ UNCHANGED <<validationErrors, phases>>
       ELSE /\ validationErrors' = ErrorsFrom(relations, regAggregates, 1)
            /\ pc' = "enums"
            /\ phases' = Append(phases, "validate")
            /\ exitCode' = exitCode
    /\ UNCHANGED <<model, aggregates, regIdx, regVars, analyzeErr, visited,
                   genVars, idVars, spliceVars, repoVars>>

\* registry.CollectEnums()
CollectEnums ==
    /\ pc = "enums"
    /\ \E order \in GetAllOrders(regAggregates) :
         enums' = enums \o EnumsFrom(order, regAggregates, 1)
    /\ pc' = "sql"
    /\ phases' = Append(phases, "enums")
    /\ UNCHANGED <<model, aggregates, regIdx, regAggregates, relations,
                   manyToManyTables, analyzeErr, visited, validationErrors,
                   genVars, exitCode, idVars, spliceVars, repoVars>>


\* the invocations b and one more of each call in the set es
Invoked(b, es) ==
    [x \in (DOMAIN b) \cup es |->
        (IF x \in DOMAIN b THEN b[x] ELSE 0) + (IF x \in es THEN 1 ELSE 0)]

\* the sets of calls that may fail: no more than the environment allows
Failing(S) == {F \in SUBSET S : Cardinality(F) <= faults}

\* mutant: a failure of the schema generator is only reported
GenerateSQL_ContinueOnFailure ==
    /\ pc = "sql"
    /\ \E F \in Failing({<<"sql", Global>>}) :
         /\ calls' = Invoked(calls, {<<"sql", Global>>})
         /\ failed' = failed \cup F
         /\ faults' = faults - Cardinality(F)
    /\ pc' = "entity"
    /\ UNCHANGED <<model, aggregates, regIdx, regVars, analyzeErr, visited,
                   validationErrors, phases, counts, exitCode, idVars, spliceVars, repoVars>>

\* sqlGenerator.Generate(outputDir), log.Fatalf on error
GenerateSQL ==
    /\ pc = "sql"
    /\ \E F \in Failing({<<"sql", Global>>}) :
         /\ calls' = Invoked(calls, {<<"sql", Global>>})
         /\ failed' = failed \cup F
         /\ faults' = faults - Cardinality(F)
         /\ pc' = IF F = {} THEN "entity" ELSE "fatal"
         /\ exitCode' = IF F = {} THEN exitCode ELSE 1
    /\ UNCHANGED <<model, aggregates, regIdx, regVars, analyzeErr, visited,
                   validationErrors, phases, counts, idVars, spliceVars, repoVars>>

\* for i, agg := range aggregates { entityGenerator.Generate(agg) ... }:
\* one call per parsed declaration, a failed call is not counted
GenerateEntity ==
    /\ pc = "entity"
    /\ \E F \in Failing(DOMAIN aggregates) :
         /\ calls' = [x \in (DOMAIN calls) \cup {<<"entity", aggregates[i].Name>> :
                                                  i \in DOMAIN aggregates} |->
                        (IF x \in DOMAIN calls THEN calls[x] ELSE 0)
                        + Cardinality({i \in DOMAIN aggregates :
                                          x = <<"entity", aggregates[i].Name>>})]
         /\ failed' = failed \cup {<<"entity", aggregates[i].Name>> : i \in F}
         /\ faults' = faults - Cardinality(F)
         /\ counts' = [counts EXCEPT !["entity"] = @ + Len(aggregates) - Cardinality(F)]
    /\ pc' = "enum"
    /\ UNCHANGED <<model, aggregates, regIdx, regVars, analyzeErr, visited,
                   validationErrors, phases, exitCode, idVars, spliceVars, repoVars>>

\* mutant: the enums are collected once more before they are generated
GenerateEnums_Recollect ==
    /\ pc = "enum"
    /\ \E order \in GetAllOrders(regAggregates) :
         enums' = enums \o EnumsFrom(order, regAggregates, 1)
    /\ IF Len(enums') > 0
       THEN \E F \in Failing({<<"enum", Global>>}) :
              /\ calls' = Invoked(calls, {<<"enum", Global>>})
              /\ failed' = failed \cup F
              /\ faults' = faults - Cardinality(F)
              /\ counts' = IF F = {} THEN [counts EXCEPT !["enum"] = @ + Len(enums')]
                           ELSE counts
       ELSE UNCHANGED <<calls, failed, faults, counts>>
    /\ pc' = RegistryLoops[1]
    /\ UNCHANGED <<model, aggregates, regIdx, regAggregates, relations,
                   manyToManyTables, analyzeErr, visited, validationErrors, phases,
                   exitCode, idVars, spliceVars, repoVars>>

\* if len(enums) > 0 { enumGenerator.Generate(registry, outputDir) ... }
GenerateEnums ==
    /\ pc = "enum"
    /\ IF Len(enums) > 0
       THEN \E F \in Failing({<<"enum", Global>>}) :
              /\ calls' = Invoked(calls, {<<"enum", Global>>})
              /\ failed' = failed \cup F
              /\ faults' = faults - Cardinality(F)
              /\ counts' = IF F = {} THEN [counts EXCEPT !["enum"] = @ + Len(enums)]
                           ELSE counts
       ELSE UNCHANGED <<calls, failed, faults, counts>>
    /\ pc' = RegistryLoops[1]
    /\ UNCHANGED <<model, aggregates, regIdx, regVars, analyzeErr, visited,
                   validationErrors, phases, exitCode, idVars, spliceVars, repoVars>>

IsRegistryLoop(kind) == \E i \in DOMAIN RegistryLoops : RegistryLoops[i] = kind
LoopIndex(kind) == CHOOSE i \in DOMAIN RegistryLoops : RegistryLoops[i] = kind

\* what follows the loop of a kind in main
AfterLoop(kind) ==
    IF kind = "do" THEN "fieldTypes"
    ELSE IF LoopIndex(kind) < Len(RegistryLoops) THEN RegistryLoops[LoopIndex(kind) + 1]
    ELSE "done"

\* mutant: the first failing call of a loop ends the run
GenerateForAggregates_AbortOnFailure ==
    /\ IsRegistryLoop(pc)
    /\ \E F \in Failing({<<pc, n>> : n \in DOMAIN regAggregates}) :
         /\ calls' = IF F = {}
                     THEN Invoked(calls, {<<pc, n>> : n \in DOMAIN regAggregates})
                     ELSE Invoked(calls, F)
         /\ failed' = failed \cup F
         /\ faults' = faults - Cardinality(F)
         /\ counts' = IF F = {}
                      THEN [counts EXCEPT ![pc] = @ + Cardinality(DOMAIN regAggregates)]
                      ELSE counts
         /\ pc' = IF F = {} THEN AfterLoop(pc) ELSE "fatal"
         /\ exitCode' = IF F # {} THEN 1
                        ELSE IF AfterLoop(pc) = "done" THEN 0 ELSE exitCode
    /\ UNCHANGED <<model, aggregates, regIdx, regVars, analyzeErr, visited,
                   validationErrors, phases, idVars, spliceVars, repoVars>>

\* for i, agg := range registry.GetAll() { <kind>Generator.Generate(agg, outputDir) ... }:
\* one call per registered aggregate, a failed call is not counted
GenerateForAggregates ==
    /\ IsRegistryLoop(pc)
    /\ \E F \in Failing({<<pc, n>> : n \in DOMAIN regAggregates}) :
         /\ calls' = Invoked(calls, {<<pc, n>> : n \in DOMAIN regAggregates})
         /\ failed' = failed \cup F
         /\ faults' = faults - Cardinality(F)
         /\ counts' = [counts EXCEPT ![pc] =
                          @ + Cardinality(DOMAIN regAggregates) - Cardinality(F)]
    /\ pc' = AfterLoop(pc)
    /\ exitCode' = IF AfterLoop(pc) = "done" THEN 0 ELSE exitCode
    /\ UNCHANGED <<model, aggregates, regIdx, regVars, analyzeErr, visited,
                   validationErrors, phases, idVars, spliceVars, repoVars>>

\* queryFieldGenerator.GenerateFieldTypes(outputDir)
GenerateFieldTypes ==
    /\ pc = "fieldTypes"
    /\ \E F \in Failing({<<"fieldTypes", Global>>}) :
         /\ calls' = Invoked(calls, {<<"fieldTypes", Global>>})
         /\ failed' = failed \cup F
         /\ faults' = faults - Cardinality(F)
    /\ pc' = "queryField"
    /\ UNCHANGED <<model, aggregates, regIdx, regVars, analyzeErr, visited,
                   validationErrors, phases, counts, exitCode, idVars, spliceVars, repoVars>>

\* the file name main announces for the artifact of a kind
FileSuffix(kind) ==
    CASE kind = "do" -> <<68, 79, 46, 103, 111>>                                  \* "DO.go"
      [] kind = "queryField" -> <<70, 105, 101, 108, 100, 115, 46, 103, 111>>        \* "Fields.go"
      [] kind = "convertor" ->
            <<67, 111, 110, 118, 101, 114, 116, 111, 114, 46, 103, 111>>      \* "Convertor.go"
      [] kind = "repoInterface" ->
            <<82, 101, 112, 111, 115, 105, 116, 111, 114, 121, 46, 103, 111>> \* "Repository.go"
      [] kind = "repoImpl" ->
            <<82, 101, 112, 111, 115, 105, 116, 111, 114, 121, 73, 109, 112, 108, 46, 103, 111>>
                                                                     \* "RepositoryImpl.go"
      [] kind = "serviceImpl" ->
            <<83, 101, 114, 118, 105, 99, 101, 73, 109, 112, 108, 46, 103, 111>>
                                                                     \* "ServiceImpl.go"

\* the directory main announces for the artifacts of a kind
OutputDir(kind) ==
    CASE kind = "entity" -> "modelDir"
      [] kind = "do" -> "infrastructure/do"
      [] kind = "queryField" -> "infrastructure/query"
      [] kind = "convertor" -> "infrastructure/convertor"
      [] kind = "repoInterface" -> "repository"
      [] kind = "repoImpl" -> "infrastructure/repository"
      [] kind = "serviceImpl" -> "service/impl"

\* the file the generator of a kind writes for an aggregate: the entity
\* generator appends to the aggregate's own source file
OutputPath(kind, agg) ==
    [ dir |-> OutputDir(kind),
      file |-> IF kind = "entity" THEN agg.FilePath ELSE agg.Name \o FileSuffix(kind) ]

\* the analysis phase of main: from ParseDirectory to CollectEnums
NextAnalysis ==
    \/ ParseDirectory
    \/ RegisterNext
    \/ RegisterDone
    \/ AnalyzeRelations
    \/ GenerateManyToManyTables
    \/ ValidateRelations
    \/ CollectEnums

\* the generation phase of main
NextGeneration ==
    \/ GenerateSQL
    \/ GenerateEntity
    \/ GenerateEnums
    \/ GenerateForAggregates
    \/ GenerateFieldTypes

Next == NextAnalysis \/ NextGeneration

\* whole runs of main
Spec == Init /\ [][Next]_vars

\* whole runs of main over the family of the source files
SpecPaths == InitPaths /\ [][Next]_vars

\* whole runs of main over the family of the business junction aggregates
SpecJunction == InitJunction /\ [][Next]_vars

\* the analysis phase of main over the aggregate-level family
SpecRefs == InitRefs /\ [][NextAnalysis]_vars

\* the analysis phase of main over the field-level family
SpecFields == InitFields /\ [][NextAnalysis]_vars

(***************************************************************************)
(* identifyIDField applied to the field list of one parsed struct          *)
(***************************************************************************)
IDFieldNames == {sID, sOrderID, sUserID, sName}

IDFieldShapes ==
    [ Name : IDFieldNames, DBTag : {sTagId, sEmpty}, Type : {sInt64, sString} ]

MakeIDFields(shapes) ==
    [ i \in 1..Len(shapes) |->
        [ Name |-> shapes[i].Name, Type |-> shapes[i].Type, DBTag |-> shapes[i].DBTag,
          IsSlice |-> FALSE, IsRef |-> FALSE, IsEntity |-> FALSE, EnumValues |-> <<>> ] ]

\* the fields of a struct have pairwise distinct names
IDFieldLists ==
    { MakeIDFields(sh) : sh \in
        { l \in SeqUpTo(IDFieldShapes, MaxIDFields) :
            \A i, j \in DOMAIN l : l[i].Name = l[j].Name => i = j } }

InitID ==
    /\ model = Malformed
    /\ pc = "idle"
    /\ aggregates = <<>>
    /\ regIdx = 1
    /\ regAggregates = <<>>
    /\ relations = <<>>
    /\ manyToManyTables = <<>>
    /\ enums = <<>>
    /\ analyzeErr = Nil
    /\ visited = <<>>
    /\ validationErrors = <<>>
    /\ phases = <<>>
    /\ faults = 0
    /\ calls = <<>>
    /\ failed = {}
    /\ counts = [k \in CounterKinds |-> 0]
    /\ exitCode = Running
    /\ idFields \in IDFieldLists
    /\ idResult = NotCalled
    /\ NoSplice
    /\ NoRepo

\* aggregate.IDField = p.identifyIDField(aggregate.Fields)
IdentifyID ==
    /\ pc = "idle"
    /\ ~ idResult.called
    /\ idResult' = [called |-> TRUE, field |-> identifyIDField(idFields)]
    /\ UNCHANGED <<model, pc, aggregates, regIdx, regVars, analyzeErr, visited,
                   validationErrors, phases, genVars, exitCode, idFields,
                   spliceVars, repoVars>>

NextID == IdentifyID

SpecID == InitID /\ [][NextID]_vars


(***************************************************************************)
(* Entity generator: the splice into the aggregate's own source file       *)
(***************************************************************************)
\* the lines of a target file: hand-written lines, generated lines, the
\* separator line of the generator and a damaged separator line
Marker == "// ========== soliton =========="
BadMarker == "// ========== soliton"
HandLines == {"type Order struct {", "}"}
GenLines == {"func (o *Order) GetID() int64", "func (o *Order) IsNew() bool"}

TargetFiles ==
    SeqUpTo(HandLines \cup {Marker, BadMarker} \cup {"func (o *Order) GetID() int64"},
            MaxLines)

Contents == SeqUpTo(GenLines, MaxContent) \ {<<>>}

\* mutant: the generated lines are appended even when the separator is found
Splice_AppendAlways(f, generated) ==
    IF Cardinality({i \in DOMAIN f : f[i] = Marker}) > 1
          \/ \E i \in DOMAIN f : f[i] = BadMarker
    THEN [ok |-> FALSE, file |-> f]
    ELSE [ok |-> TRUE, file |-> f \o <<Marker>> \o generated]

\* mutant: a file without separator is overwritten
Splice_OverwriteWhenAbsent(f, generated) ==
    LET found == {i \in DOMAIN f : f[i] = Marker}
    IN  IF Cardinality(found) > 1 \/ \E i \in DOMAIN f : f[i] = BadMarker
        THEN [ok |-> FALSE, file |-> f]
        ELSE IF found = {}
             THEN [ok |-> TRUE, file |-> <<Marker>> \o generated]
             ELSE LET k == CHOOSE i \in found : TRUE
                  IN  [ok |-> TRUE, file |-> SubSeq(f, 1, k - 1) \o <<Marker>> \o generated]

\* mutant: of several separators the first one is taken
Splice_FirstMarkerWins(f, generated) ==
    LET found == {i \in DOMAIN f : f[i] = Marker}
    IN  IF \E i \in DOMAIN f : f[i] = BadMarker
        THEN [ok |-> FALSE, file |-> f]
        ELSE IF found = {}
             THEN [ok |-> TRUE, file |-> f \o <<Marker>> \o generated]
             ELSE LET k == CHOOSE i \in found : \A j \in found : i <= j
                  IN  [ok |-> TRUE, file |-> SubSeq(f, 1, k - 1) \o <<Marker>> \o generated]

\* one run of the generator on the lines f: with one separator, everything
\* from it on is replaced by the separator and the generated lines; without,
\* both are appended; with several or a damaged one the run fails and the
\* file stays as it is
Splice(f, generated) ==
    LET found == {i \in DOMAIN f : f[i] = Marker}
    IN  IF Cardinality(found) > 1 \/ \E i \in DOMAIN f : f[i] = BadMarker
        THEN [ok |-> FALSE, file |-> f]
        ELSE IF found = {}
             THEN [ok |-> TRUE, file |-> f \o <<Marker>> \o generated]
             ELSE LET k == CHOOSE i \in found : TRUE
                  IN  [ok |-> TRUE, file |-> SubSeq(f, 1, k - 1) \o <<Marker>> \o generated]

InitSplice ==
    /\ model = Malformed
    /\ pc = "splice"
    /\ aggregates = <<>>
    /\ regIdx = 1
    /\ regAggregates = <<>>
    /\ relations = <<>>
    /\ manyToManyTables = <<>>
    /\ enums = <<>>
    /\ analyzeErr = Nil
    /\ visited = <<>>
    /\ validationErrors = <<>>
    /\ phases = <<>>
    /\ faults = 0
    /\ calls = <<>>
    /\ failed = {}
    /\ counts = [k \in CounterKinds |-> 0]
    /\ exitCode = Running
    /\ idFields = <<>>
    /\ idResult = NotCalled
    /\ original \in TargetFiles
    /\ file = original
    /\ content \in Contents
    /\ runs = 0
    /\ spliceErr = FALSE
    /\ NoRepo

\* entityGenerator.Generate(agg) on the aggregate's source file
EntitySplice ==
    /\ pc = "splice"
    /\ runs < MaxRuns
    /\ LET r == Splice(file, content)
       IN  /\ file' = r.file
           /\ spliceErr' = ~ r.ok
    /\ runs' = runs + 1
    /\ UNCHANGED <<model, pc, aggregates, regIdx, regVars, analyzeErr, visited,
                   validationErrors, phases, genVars, exitCode, idVars, original,
                   content, repoVars>>

NextSplice == EntitySplice

\* repeated runs of the entity generator on one source file
SpecSplice == InitSplice /\ [][NextSplice]_vars

(***************************************************************************)
(* The registry used by a client that collects the enums while it is still *)
(* registering: Register and CollectEnums are public and may be called in  *)
(* any order                                                               *)
(***************************************************************************)
EnumAggNames == {sOrder, sOrderItem}
EnumFieldNames == {sStatus, sItemStatus}
EnumValueLists == {<<>>, <<sName, sActive>>}

\* the fields of a struct: distinct names, each with or without
\* +soliton:enum values
EnumFieldLists ==
    { fs \in SeqUpTo([ Name : EnumFieldNames, Type : {sString}, DBTag : {sEmpty},
                       IsSlice : {FALSE}, IsRef : {FALSE}, IsEntity : {FALSE},
                       EnumValues : EnumValueLists ], Cardinality(EnumFieldNames)) :
        \A i, j \in DOMAIN fs : fs[i].Name = fs[j].Name => i = j }

EnumDecls ==
    OwnFile([ Name : EnumAggNames, IsManyToMany : {FALSE}, Refs : {<<>>},
              Fields : EnumFieldLists,
              FilePath : {FileOf(n) : n \in EnumAggNames} ])

EnumModels == SeqUpTo(EnumDecls, MaxAggs)

InitEnums == \E m \in Directories(EnumModels) : InitMain(m, 0)

\* CollectEnums calls made so far
Collects == Cardinality({i \in DOMAIN phases : phases[i] = "enums"})

\* registry.CollectEnums() called between two Register calls
RegistryCollectEnums ==
    /\ pc = "register"
    /\ Collects < MaxCollects
    /\ \E order \in GetAllOrders(regAggregates) :
         enums' = enums \o EnumsFrom(order, regAggregates, 1)
    /\ phases' = Append(phases, "enums")
    /\ UNCHANGED <<model, pc, aggregates, regIdx, regAggregates, relations,
                   manyToManyTables, analyzeErr, visited, validationErrors,
                   genVars, exitCode, idVars, spliceVars, repoVars>>

NextEnums ==
    \/ ParseDirectory
    \/ RegisterNext
    \/ RegistryCollectEnums

\* Register and CollectEnums calls in any order
SpecEnums == InitEnums /\ [][NextEnums]_vars

(***************************************************************************)
(* framework: BaseRepository[T, D] and BaseService[T] over the table of    *)
(* one aggregate, called by concurrent callers. Each database statement is *)
(* one atomic step; a call that issues two statements takes two steps.     *)
(***************************************************************************)
Callers == 1..MaxCallers
RecordIDs == 1..MaxRecords
Versions == 1..MaxVersion

NoError == "nil"
ErrRecordNotFound == "ErrRecordNotFound"
ErrVersionConflict == "ErrVersionConflict"
ErrEntityNotFound == "ErrEntityNotFound"
ErrDeleteNoRecord == "delete failed: no record"        \* errors.New in Delete
ErrRemoveNoRecord == "soft delete failed: no record"   \* errors.New in Remove
DbError(statement) == "db error: " \o statement        \* result.Error

Idle == [ op |-> "none", at |-> "idle", id |-> 0, version |-> 0, rows |-> 0,
          exists |-> "unset", removes |-> 0, deletes |-> 0, removed |-> "unset",
          result |-> "unset" ]

\* r.db.Updates(do). With an optimistic-lock column the statement is the one
\* Update documents: UPDATE .. SET .., version = version + 1
\* WHERE id = ? AND version = ?. With a plain integer column, as in the data
\* objects the convertors fill (Version: domain.Version), it is
\* UPDATE .. SET .., version = ? WHERE id = ?.
Updates(st, lock, do) ==
    IF do.ID \notin DOMAIN st THEN [store |-> st, RowsAffected |-> 0]
    ELSE IF lock
         THEN (IF st[do.ID].Version = do.Version
               THEN [store |-> [st EXCEPT ![do.ID] =
                                   [Version |-> @.Version + 1, Data |-> do.Data]],
                     RowsAffected |-> 1]
               ELSE [store |-> st, RowsAffected |-> 0])
         ELSE [store |-> [st EXCEPT ![do.ID] =
                             [Version |-> do.Version, Data |-> do.Data]],
               RowsAffected |-> 1]

\* r.db.Delete(&do, id): the row is no longer visible to the queries
DbDelete(st, id) ==
    IF id \in DOMAIN st
    THEN [store |-> [i \in (DOMAIN st) \ {id} |-> st[i]], RowsAffected |-> 1]
    ELSE [store |-> st, RowsAffected |-> 0]

\* r.db.First(&check, id) finds a row
First(st, id) == id \in DOMAIN st

\* r.db.Model(&do).Where("id = ?", id).Count(&count)
Count(st, id) == IF id \in DOMAIN st THEN 1 ELSE 0

\* Update after db.Updates: where the call goes on and what it returns
UpdateAfterUpdates(err, rows) ==
    IF err THEN [at |-> "done", result |-> DbError("Updates")]
    ELSE IF rows = 0 THEN [at |-> "first", result |-> "unset"]
    ELSE [at |-> "done", result |-> NoError]

\* mutant: a record that is not found is reported as a version conflict
UpdateAfterFirst_AlwaysConflict(err, found) ==
    IF err THEN DbError("First") ELSE ErrVersionConflict

\* Update after db.First: what it returns
UpdateAfterFirst(err, found) ==
    IF err THEN DbError("First")
    ELSE IF ~ found THEN ErrRecordNotFound
    ELSE ErrVersionConflict

\* BaseRepository.Delete
Delete(st, id, err) ==
    IF err THEN [store |-> st, result |-> DbError("Delete")]
    ELSE LET r == DbDelete(st, id)
         IN  [store |-> r.store,
              result |-> IF r.RowsAffected = 0 THEN ErrDeleteNoRecord ELSE NoError]

\* BaseRepository.Remove
Remove(st, id, err) ==
    IF err THEN [store |-> st, result |-> DbError("Delete")]
    ELSE LET r == DbDelete(st, id)
         IN  [store |-> r.store,
              result |-> IF r.RowsAffected = 0 THEN ErrRemoveNoRecord ELSE NoError]

\* BaseRepository.Exists
RepositoryExists(st, id, err) ==
    IF err THEN [exists |-> FALSE, err |-> DbError("Count")]
    ELSE [exists |-> Count(st, id) > 0, err |-> NoError]

\* mutant: Remove is called whatever Exists reports
DeleteAfterExists_RemoveAnyway(e) ==
    IF e.err # NoError THEN [at |-> "done", result |-> e.err]
    ELSE [at |-> "remove", result |-> "unset"]

\* BaseService.Delete after repository.Exists
DeleteAfterExists(e) ==
    IF e.err # NoError THEN [at |-> "done", result |-> e.err]
    ELSE IF ~ e.exists THEN [at |-> "done", result |-> ErrEntityNotFound]
    ELSE [at |-> "remove", result |-> "unset"]

\* whether the next database statement fails
Faulty == IF dbFaults > 0 THEN BOOLEAN ELSE {FALSE}
Spent(err) == IF err THEN dbFaults - 1 ELSE dbFaults

mainVars == <<model, pc, aggregates, regIdx, regVars, analyzeErr, visited,
              validationErrors, phases, genVars, exitCode, idVars, spliceVars>>

Tables == UNION {[S -> [Version : Versions, Data : {0}]] : S \in SUBSET RecordIDs}

InitFramework ==
    /\ model = Malformed
    /\ pc = "framework"
    /\ aggregates = <<>>
    /\ regIdx = 1
    /\ regAggregates = <<>>
    /\ relations = <<>>
    /\ manyToManyTables = <<>>
    /\ enums = <<>>
    /\ analyzeErr = Nil
    /\ visited = <<>>
    /\ validationErrors = <<>>
    /\ phases = <<>>
    /\ faults = 0
    /\ calls = <<>>
    /\ failed = {}
    /\ counts = [k \in CounterKinds |-> 0]
    /\ exitCode = Running
    /\ idFields = <<>>
    /\ idResult = NotCalled
    /\ NoSplice
    /\ store \in Tables
    /\ lockColumn \in BOOLEAN
    /\ procs = [p \in Callers |-> Idle]
    /\ dbFaults = MaxDBErrors

\* BaseRepository.Update(entity) up to and including db.Updates(do)
UpdateUpdates(p) ==
    /\ procs[p].at = "idle"
    /\ \E id \in RecordIDs, v \in Versions, err \in Faulty :
         LET do == [ID |-> id, Version |-> v, Data |-> p]
             r == IF err THEN [store |-> store, RowsAffected |-> 0]
                  ELSE Updates(store, lockColumn, do)
             n == UpdateAfterUpdates(err, r.RowsAffected)
         IN  /\ store' = r.store
             /\ procs' = [procs EXCEPT ![p] =
                             [@ EXCEPT !.op = "Update", !.id = id, !.version = v,
                                       !.rows = r.RowsAffected, !.at = n.at,
                                       !.result = n.result]]
             /\ dbFaults' = Spent(err)
    /\ UNCHANGED <<mainVars, lockColumn>>

\* BaseRepository.Update: db.First(&check, entity.GetID()) and the return
UpdateFirst(p) ==
    /\ procs[p].at = "first"
    /\ \E err \in Faulty :
         /\ procs' = [procs EXCEPT ![p] =
                         [@ EXCEPT !.at = "done",
                                   !.result = UpdateAfterFirst(err, First(store, procs[p].id))]]
         /\ dbFaults' = Spent(err)
    /\ UNCHANGED <<mainVars, store, lockColumn>>

\* BaseService.Delete(id) up to and including repository.Exists(id)
ServiceDeleteExists(p) ==
    /\ procs[p].at = "idle"
    /\ \E id \in RecordIDs, err \in Faulty :
         LET e == RepositoryExists(store, id, err)
             n == DeleteAfterExists(e)
         IN  /\ procs' = [procs EXCEPT ![p] =
                             [@ EXCEPT !.op = "Service.Delete", !.id = id,
                                       !.exists = IF e.err # NoError THEN "error"
                                                  ELSE IF e.exists THEN "true"
                                                  ELSE "false",
                                       !.at = n.at, !.result = n.result]]
             /\ dbFaults' = Spent(err)
    /\ UNCHANGED <<mainVars, store, lockColumn>>

\* BaseService.Delete: return s.repository.Remove(ctx, id)
ServiceDeleteRemove(p) ==
    /\ procs[p].at = "remove"
    /\ \E err \in Faulty :
         LET r == Remove(store, procs[p].id, err)
         IN  /\ store' = r.store
             /\ procs' = [procs EXCEPT ![p] =
                             [@ EXCEPT !.at = "done", !.removes = @ + 1,
                                       !.removed = r.result, !.result = r.result]]
             /\ dbFaults' = Spent(err)
    /\ UNCHANGED <<mainVars, lockColumn>>

\* a caller of the repository: Remove(id)
RepositoryRemove(p) ==
    /\ procs[p].at = "idle"
    /\ \E id \in RecordIDs, err \in Faulty :
         LET r == Remove(store, id, err)
         IN  /\ store' = r.store
             /\ procs' = [procs EXCEPT ![p] =
                             [@ EXCEPT !.op = "Remove", !.id = id, !.at = "done",
                                       !.removes = @ + 1, !.result = r.result]]
             /\ dbFaults' = Spent(err)
    /\ UNCHANGED <<mainVars, lockColumn>>

\* a caller of the repository: Delete(id)
RepositoryDelete(p) ==
    /\ procs[p].at = "idle"
    /\ \E id \in RecordIDs, err \in Faulty :
         LET r == Delete(store, id, err)
         IN  /\ store' = r.store
             /\ procs' = [procs EXCEPT ![p] =
                             [@ EXCEPT !.op = "Delete", !.id = id, !.at = "done",
                                       !.deletes = @ + 1, !.result = r.result]]
             /\ dbFaults' = Spent(err)
    /\ UNCHANGED <<mainVars, lockColumn>>

NextFramework ==
    \E p \in Callers :
        \/ UpdateUpdates(p)
        \/ UpdateFirst(p)
        \/ ServiceDeleteExists(p)
        \/ ServiceDeleteRemove(p)
        \/ RepositoryRemove(p)
        \/ RepositoryDelete(p)

\* concurrent calls of the repository and the service on one table
SpecFramework == InitFramework /\ [][NextFramework]_vars

(***************************************************************************)
(* Vocabulary of the properties                                            *)
(***************************************************************************)
PhaseA == <<"register", "analyze", "junction", "validate", "enums">>

Completed(phase) == \E i \in DOMAIN phases : phases[i] = phase

\* AnalyzeRelations has returned, with or without error
AnalyzeReturned == Completed("analyze") \/ analyzeErr # Nil

Registered == DOMAIN regAggregates

\* a is lexicographically smaller than b
LexLess(a, b) ==
    \E k \in 0..Len(a) :
        /\ k <= Len(b)
        /\ \A i \in 1..k : a[i] = b[i]
        /\ \/ (k = Len(a) /\ k < Len(b))
           \/ (k < Len(a) /\ k < Len(b) /\ a[k + 1] < b[k + 1])

IsUpper(c) == c \in 65..90
Lower(c) == IF IsUpper(c) THEN c + 32 ELSE c
UppersUpTo(s, i) == Cardinality({j \in 2..i : IsUpper(s[j])})

\* out is s with an underscore before every uppercase letter that is not in
\* first position, lowercased
IsSnakeOf(out, s) ==
    /\ Len(out) = Len(s) + UppersUpTo(s, Len(s))
    /\ \A i \in 1..Len(s) :
          /\ out[i + UppersUpTo(s, i)] = Lower(s[i])
          /\ (i > 1 /\ IsUpper(s[i])) => out[i + UppersUpTo(s, i) - 1] = 95

\* t is the type name stripped of any package qualifier
IsUnqualified(t, typeName) ==
    /\ \A i \in DOMAIN t : t[i] # 46
    /\ \E k \in 0..Len(typeName) :
          /\ t = SubSeq(typeName, k + 1, Len(typeName))
          /\ k > 0 => typeName[k] = 46

Lists(a, b) == \E i \in DOMAIN regAggregates[a].Refs : regAggregates[a].Refs[i] = b
Occurrences(a, b) ==
    Cardinality({i \in DOMAIN regAggregates[a].Refs : regAggregates[a].Refs[i] = b})

Mutual(a, b) == a # b /\ Lists(a, b) /\ Lists(b, a)

ManyToManyOf(a, b) ==
    {i \in DOMAIN relations :
        /\ relations[i].Type = "ManyToMany"
        /\ {relations[i].SourceAggregate, relations[i].TargetAggregate} = {a, b}}

TablesOf(a, b) ==
    {i \in DOMAIN manyToManyTables :
        {manyToManyTables[i].LeftAggregate, manyToManyTables[i].RightAggregate} = {a, b}}

FieldsOf(s) == {regAggregates[s].Fields[i] : i \in DOMAIN regAggregates[s].Fields}

\* the relation records with source s and field f
RelationsOf(s, f) ==
    {i \in DOMAIN relations :
        relations[i].SourceAggregate = s /\ relations[i].Field = Ptr(f)}

\* the errors naming source s, field f and target t
ErrorsNaming(s, f, t) ==
    {i \in DOMAIN validationErrors :
        validationErrors[i] =
            [SourceAggregate |-> s, FieldName |-> f.Name, TargetAggregate |-> t]}

(***************************************************************************)
(* C3 -- ref-annotated fields of basic type                                *)
(***************************************************************************)
\* C3: after AnalyzeRelations, every ref-annotated field of basic type of a
\* registered aggregate has a relation record of kind Ref with that source
\* and that field.
C3_RefRelationRecorded ==
    Completed("analyze") =>
        \A s \in Registered : \A f \in FieldsOf(s) :
            (f.IsRef /\ isBasicType(f.Type)) =>
                /\ RelationsOf(s, f) # {}
                /\ \A i \in RelationsOf(s, f) : relations[i].Type = "Ref"

(***************************************************************************)
(* C4 -- fields annotated as associated entities                           *)
(***************************************************************************)
\* C4 (as stated): after one AnalyzeRelations, every entity-annotated field of
\* a registered aggregate has exactly one relation record, OneToMany when the
\* field is a slice and OneToOne otherwise, whose target is the field's type
\* name without package qualifier.
C4_EntityFieldRelation ==
    Completed("analyze") =>
        \A s \in Registered : \A f \in FieldsOf(s) :
            f.IsEntity =>
                /\ Cardinality(RelationsOf(s, f)) = 1
                /\ \A i \in RelationsOf(s, f) :
                      /\ relations[i].Type =
                            (IF f.IsSlice THEN "OneToMany" ELSE "OneToOne")
                      /\ IsUnqualified(relations[i].TargetAggregate, f.Type)

\* C4 (amended): after one AnalyzeRelations that returned no error, every
\* entity-annotated field of non-basic type of a registered aggregate has
\* exactly one relation record, OneToMany when the field is a slice and
\* OneToOne otherwise, whose target is the field's type name without package
\* qualifier; an entity-annotated field of basic type that is not
\* ref-annotated has no relation record.
C4_NonBasicEntityFieldRelation ==
    Completed("analyze") =>
        \A s \in Registered : \A f \in FieldsOf(s) :
            f.IsEntity =>
                IF isBasicType(f.Type)
                THEN f.IsRef \/ RelationsOf(s, f) = {}
                ELSE /\ Cardinality(RelationsOf(s, f)) = 1
                     /\ \A i \in RelationsOf(s, f) :
                           /\ relations[i].Type =
                                 (IF f.IsSlice THEN "OneToMany" ELSE "OneToOne")
                           /\ IsUnqualified(relations[i].TargetAggregate, f.Type)

\* a slice field of type model.Role is recorded as OneToMany to Role
C4_Witness ==
    /\ Completed("analyze")
    /\ \E s \in Registered : \E f \in FieldsOf(s) :
          /\ f.IsEntity /\ f.IsSlice /\ f.Type = sModelRole
          /\ \E i \in RelationsOf(s, f) :
                relations[i].Type = "OneToMany" /\ relations[i].TargetAggregate = sRole

(***************************************************************************)
(* C5 -- a field pointing at the unregistered Warehouse                    *)
(***************************************************************************)
\* C5 (as stated): when the registered Order has a ref-annotated field that
\* points at the unregistered Warehouse, then after AnalyzeRelations and
\* ValidateRelations an error names Order, the field and Warehouse, and a
\* relation record of that field with target Warehouse is in the registry.
C5_DanglingRefFieldReported ==
    (Completed("validate") /\ sOrder \in Registered /\ sWarehouse \notin Registered) =>
        \A f \in FieldsOf(sOrder) :
            (f.IsRef /\ f.Type = sWarehouse) =>
                /\ ErrorsNaming(sOrder, f, sWarehouse) # {}
                /\ \E i \in RelationsOf(sOrder, f) :
                      relations[i].TargetAggregate = sWarehouse

\* C5 (amended): when the registered Order has an entity-annotated field
\* whose type is the unregistered Warehouse, then after an AnalyzeRelations
\* without error and ValidateRelations exactly one error names Order, the
\* field and Warehouse, and the relation record of that field with target
\* Warehouse is in the registry; a field that is ref-annotated but not
\* entity-annotated is named by no error.
C5_DanglingEntityFieldReported ==
    (Completed("validate") /\ sOrder \in Registered /\ sWarehouse \notin Registered) =>
        \A f \in FieldsOf(sOrder) :
            /\ (f.IsEntity /\ f.Type = sWarehouse) =>
                  /\ Cardinality(ErrorsNaming(sOrder, f, sWarehouse)) = 1
                  /\ \E i \in RelationsOf(sOrder, f) :
                        relations[i].TargetAggregate = sWarehouse
            /\ (f.IsRef /\ ~ f.IsEntity) =>
                  \A i \in DOMAIN validationErrors :
                      ~ (/\ validationErrors[i].SourceAggregate = sOrder
                         /\ validationErrors[i].FieldName = f.Name)

C5_Witness ==
    /\ Completed("validate")
    /\ sOrder \in Registered
    /\ \E f \in FieldsOf(sOrder) :
          /\ f.IsEntity /\ f.Type = sWarehouse
          /\ ErrorsNaming(sOrder, f, sWarehouse) # {}
          /\ RelationsOf(sOrder, f) # {}

(***************************************************************************)
(* C6 -- aggregate-level ref to an unregistered name                       *)
(***************************************************************************)
\* the aggregate-level refs of a to names that are not registered
Dangling(a) ==
    {i \in DOMAIN regAggregates[a].Refs : regAggregates[a].Refs[i] \notin Registered}

\* a's declared refs are looked up: a is not flagged +soliton:manyToMany
HasDangling(a) == ~ regAggregates[a].IsManyToMany /\ Dangling(a) # {}

Unresolved ==
    {i \in DOMAIN relations :
        relations[i].Type # "Ref" /\ relations[i].TargetAggregate \notin Registered}

\* the k-th unresolved relation record, in registry order
NthUnresolved(k) ==
    CHOOSE i \in Unresolved : Cardinality({j \in Unresolved : j <= i}) = k

Rank(f) ==
    IF f.DBTag = <<105, 100>> THEN 1
    ELSE IF f.Name = <<73, 68>> THEN 2
    ELSE IF Len(f.Name) > 2 /\ SubSeq(f.Name, Len(f.Name) - 1, Len(f.Name)) = <<73, 68>>
         THEN 3
    ELSE IF f.Type = <<105, 110, 116, 54, 52>> THEN 4
    ELSE 0

Candidates == {i \in DOMAIN idFields : Rank(idFields[i]) # 0}

\* C8 (as stated): whatever the fields are, a field is selected.
C8_IDFieldNeverAbsent == idResult.called => idResult.field # Nil

\* C8 (amended): ID-field identification selects at most one field, one of
\* the aggregate's fields; it selects a field exactly when some field is a
\* candidate (db tag id, name ID, name ending in ID and longer than 2, or type
\* int64); without candidate the IDField is absent.
C8_IDFieldIffCandidate ==
    idResult.called =>
        /\ (idResult.field # Nil) <=> (Candidates # {})
        /\ idResult.field # Nil =>
              \E i \in Candidates : idResult.field = Ptr(idFields[i])

\* fields without candidate: no field is selected
C8_Witness ==
    /\ idResult.called
    /\ Len(idFields) >= 1
    /\ Candidates = {}
    /\ idResult.field = Nil

\* C9: the selected field is the first, in declaration order, of the fields of
\* best priority.
C9_FirstOfBestPriority ==
    (idResult.called /\ Candidates # {}) =>
        \E i \in Candidates :
            /\ idResult.field = Ptr(idFields[i])
            /\ \A j \in Candidates :
                  \/ Rank(idFields[i]) < Rank(idFields[j])
                  \/ (Rank(idFields[i]) = Rank(idFields[j]) /\ i <= j)

\* a field named ID, then two fields with db tag id: the second field wins
C9_Witness ==
    /\ idResult.called
    /\ Len(idFields) = 3
    /\ Rank(idFields[1]) = 2 /\ Rank(idFields[2]) = 1 /\ Rank(idFields[3]) = 1
    /\ idResult.field = Ptr(idFields[2])

(***************************************************************************)
(* C10 -- the analysis phase precedes every generator                      *)
(***************************************************************************)
IsPrefixOf(p, q) == Len(p) <= Len(q) /\ SubSeq(q, 1, Len(p)) = p

\* C10: the phases complete in the order registration, relation inference,
\* junction synthesis, validation, enum collection; registration is complete
\* when every parsed aggregate is registered; no generator is invoked before
\* all five have completed.
C10_AnalysisBeforeGeneration ==
    /\ IsPrefixOf(phases, PhaseA)
    /\ Completed("register") =>
          \A i \in DOMAIN aggregates : aggregates[i].Name \in Registered
    /\ DOMAIN calls # {} => phases = PhaseA

\* every kind of generator has been invoked, after the five phases
C10_Witness ==
    /\ phases = PhaseA
    /\ Len(aggregates) = 2
    /\ <<"sql", Global>> \in DOMAIN calls
    /\ <<"enum", Global>> \in DOMAIN calls
    /\ \E n \in Registered :
          <<"entity", n>> \in DOMAIN calls /\ <<"serviceImpl", n>> \in DOMAIN calls

(***************************************************************************)
(* Vocabulary of the generation properties                                 *)
(***************************************************************************)
\* the generation steps of main, in program order
GenSteps == <<"sql", "entity", "enum", "do", "fieldTypes", "queryField",
              "convertor", "repoInterface", "repoImpl", "serviceImpl">>

\* the generators main runs once per registered aggregate
PerRegistered == {"do", "queryField", "convertor", "repoInterface", "repoImpl",
                  "serviceImpl"}

\* main is past the step: it is at a later step or at its end
Passed(step) ==
    \/ pc = "done"
    \/ \E j, k \in DOMAIN GenSteps : j < k /\ GenSteps[j] = step /\ GenSteps[k] = pc

\* how often the generator of a kind was invoked for a target
Invocations(kind, target) ==
    IF <<kind, target>> \in DOMAIN calls THEN calls[<<kind, target>>] ELSE 0

\* the parsed declarations of a name
DeclsOf(n) == {i \in DOMAIN aggregates : aggregates[i].Name = n}

FailedOf(kind) == {c \in failed : c[1] = kind}

(***************************************************************************)
(* C11 -- a failing generator call does not stop the others                *)
(***************************************************************************)
\* C11: a failing call of a per-aggregate generator never ends the run: once
\* main is past a loop, its generator has been invoked for every aggregate of
\* the loop, whatever calls failed before or in it, and a failed call is
\* recorded as failed and not counted as a success.
C11_FailureDoesNotAbort ==
    /\ pc = "fatal" => failed \subseteq {<<"sql", Global>>}
    /\ \A kind \in PerRegistered :
          Passed(kind) =>
              /\ \A n \in Registered : Invocations(kind, n) = 1
              /\ counts[kind] = Cardinality(Registered) - Cardinality(FailedOf(kind))
    /\ Passed("entity") =>
          /\ \A i \in DOMAIN aggregates :
                Invocations("entity", aggregates[i].Name)
                    = Cardinality(DeclsOf(aggregates[i].Name))
          /\ counts["entity"] <= Len(aggregates) - Cardinality(FailedOf("entity"))
          /\ FailedOf("entity") = {} => counts["entity"] = Len(aggregates)

\* the persisted-object generator failed for one aggregate: it ran for the
\* other one and every later generator ran for both
C11_Witness ==
    /\ pc = "done"
    /\ \E n \in Registered, m \in Registered :
          /\ n # m
          /\ failed = {<<"do", n>>}
          /\ Invocations("do", m) = 1
          /\ counts["do"] = 1
          /\ \A kind \in PerRegistered \ {"do"} :
                Invocations(kind, n) = 1 /\ Invocations(kind, m) = 1 /\ counts[kind] = 2

(***************************************************************************)
(* C12 -- every generator runs once per aggregate                          *)
(***************************************************************************)
\* C12: at the end of a run that reached generation, each per-aggregate
\* generator (entity, do, convertor, queryField, repoInterface, repoImpl,
\* serviceInterface, serviceImpl) has been invoked exactly once for every
\* registered aggregate, the schema-DDL generator exactly once and the enum
\* generator at most once.
C12_EachGeneratorOncePerAggregate ==
    pc = "done" =>
        /\ \A n \in Registered :
              \A kind \in PerRegistered \cup {"entity", "serviceInterface"} :
                  Invocations(kind, n) = 1
        /\ Invocations("sql", Global) = 1
        /\ Invocations("enum", Global) <= 1

(***************************************************************************)
(* C13 -- exit status                                                      *)
(***************************************************************************)
\* the run has ended
Ended == pc \in {"done", "fatal", "panic"}

C14_RegistryFrozenAfterEnums ==
    [][Completed("enums") => regVars' = regVars]_vars

\* a run with relations, a junction table and enums has reached its end
C14_Witness ==
    /\ pc = "done"
    /\ Completed("enums")
    /\ relations # <<>>
    /\ manyToManyTables # <<>>
    /\ enums # <<>>

(***************************************************************************)
(* C15 -- determinism                                                      *)
(***************************************************************************)
\* C15: the relation records, junction tables and enum descriptors of a run
\* are those of every other run on the same registered declarations, in the
\* same order: whatever order GetAll() hands out the aggregates in, analysis,
\* junction synthesis and enum collection give the lists this run has.
C15_SameResultInEveryRun ==
    /\ Completed("analyze") =>
          \A order \in GetAllOrders(regAggregates) :
              AnalyzeFrom(order, regAggregates, 1).rels = relations
    /\ Completed("junction") =>
          \A order \in GetAllOrders(regAggregates) :
              TablesFrom(AnalyzeFrom(order, regAggregates, 1).rels, regAggregates, 1)
                  = manyToManyTables
    /\ Completed("enums") =>
          \A order \in GetAllOrders(regAggregates) :
              EnumsFrom(order, regAggregates, 1) = enums

(***************************************************************************)
(* C16 -- output paths                                                     *)
(***************************************************************************)
\* C16: once the entity generator has run, no two distinct pairs of an
\* aggregate and an artifact kind have the same output path; in particular
\* two distinct aggregates have different entity target files.
C16_DistinctOutputPaths ==
    Passed("entity") =>
        \A a \in DOMAIN aggregates, b \in DOMAIN aggregates :
            \A k1 \in PerRegistered \cup {"entity"}, k2 \in PerRegistered \cup {"entity"} :
                <<aggregates[a].Name, k1>> # <<aggregates[b].Name, k2>> =>
                    OutputPath(k1, aggregates[a]) # OutputPath(k2, aggregates[b])

(***************************************************************************)
(* C17, C18, C19 -- the splice of the entity generator                     *)
(***************************************************************************)
MarkerCount(f) == Cardinality({i \in DOMAIN f : f[i] = Marker})

\* the lines of f before its first separator line: all of f when it has none
BeforeMarker(f) ==
    IF MarkerCount(f) = 0 THEN f
    ELSE SubSeq(f, 1, (CHOOSE i \in DOMAIN f :
                          f[i] = Marker /\ \A j \in 1..(i - 1) : f[j] # Marker) - 1)

\* C17: when the file had at most one separator line before the first run,
\* every run after the first leaves the file as the first run left it.
C17_SpliceIdempotent ==
    [][(runs >= 1 /\ MarkerCount(original) <= 1) => file' = file]_vars

\* old generated lines were replaced and further runs were made
C17_Witness ==
    /\ runs = MaxRuns
    /\ MarkerCount(original) = 1
    /\ ~ spliceErr
    /\ file # original
    /\ Len(original) = 3

\* C18: after any number of runs the lines before the separator are the lines
\* the original file had before its separator (the whole original file when
\* it had none), in the same order.
C18_HandWrittenPreserved ==
    BeforeMarker(file) = BeforeMarker(original)

\* a file of two hand-written lines and no separator, after two runs
C18_Witness ==
    /\ runs >= 2
    /\ MarkerCount(original) = 0
    /\ Len(original) = 2
    /\ ~ spliceErr
    /\ BeforeMarker(file) = original
    /\ Len(file) > Len(original)

\* C19: when the file has more than one separator line, every run fails and
\* the file stays exactly as it was.
C19_DuplicateMarkerFails ==
    (runs >= 1 /\ MarkerCount(original) > 1) => (spliceErr /\ file = original)

C19_Witness ==
    /\ runs >= 1
    /\ MarkerCount(original) = 2
    /\ Len(original) = 3
    /\ spliceErr
    /\ file = original

(***************************************************************************)
(* C20 -- Register, Get and Exists                                         *)
(***************************************************************************)
\* the declarations registered so far
RegisteredDecls == {i \in DOMAIN aggregates : i < regIdx}

\* C20: after any sequence of Register calls the registry holds, for each
\* name registered so far, exactly the descriptor most recently registered
\* under it and nothing for any other name; Get returns a descriptor exactly
\* for the names for which Exists is true; registering the descriptor a name
\* already has changes nothing.
C20_LastWriteWins ==
    /\ [](pc = "register" =>
            /\ Registered = {aggregates[i].Name : i \in RegisteredDecls}
            /\ \A i \in RegisteredDecls :
                  (\A j \in RegisteredDecls :
                        aggregates[j].Name = aggregates[i].Name => j <= i)
                      => Get(regAggregates, aggregates[i].Name) = Ptr(aggregates[i])
            /\ \A n \in AggNames \cup {sWarehouse} :
                  (Get(regAggregates, n) # Nil) <=> Exists(regAggregates, n))
    /\ [][(/\ pc = "register"
           /\ regIdx <= Len(aggregates)
           /\ Get(regAggregates, aggregates[regIdx].Name) = Ptr(aggregates[regIdx]))
              => regAggregates' = regAggregates]_vars

\* two different declarations of one name: the second one is registered
C20_Witness ==
    /\ pc = "register"
    /\ Len(aggregates) = 2
    /\ regIdx = 3
    /\ aggregates[1].Name = aggregates[2].Name
    /\ aggregates[1] # aggregates[2]
    /\ Registered = {aggregates[2].Name}
    /\ regAggregates[aggregates[2].Name] = aggregates[2]

(***************************************************************************)
(* C21 -- CollectEnums after the registration                              *)
(***************************************************************************)
\* the (aggregate, field position) pairs of a registry whose field carries
\* at least one enum value
EnumPairs(reg) ==
    { p \in UNION {{<<n, i>> : i \in DOMAIN reg[n].Fields} : n \in DOMAIN reg} :
        Len(reg[p[1]].Fields[p[2]].EnumValues) > 0 }

\* the descriptors of es that belong to field f of aggregate n
DescriptorsOf(es, n, f) ==
    {k \in DOMAIN es : es[k].AggregateName = n /\ es[k].FieldName = f}

\* C21: the first CollectEnums run yields exactly one enum descriptor per
\* (aggregate, field) of the registry whose field carries at least one enum
\* value, named aggregate name + field name and carrying the values in
\* declared order; registering an aggregate afterwards adds no descriptor.
C21_CollectEnumsAfterRegistration ==
    [][/\ (Collects = 0 /\ Collects' = 1) =>
            /\ Len(enums') = Cardinality(EnumPairs(regAggregates))
            /\ \A p \in EnumPairs(regAggregates) :
                  LET field == regAggregates[p[1]].Fields[p[2]]
                      ks == DescriptorsOf(enums', p[1], field.Name)
                  IN  /\ Cardinality(ks) = 1
                      /\ \A k \in ks :
                            /\ enums'[k].Name = p[1] \o field.Name
                            /\ enums'[k].Values = field.EnumValues
       /\ regAggregates' # regAggregates => enums' = enums]_vars

\* one run collected the enum of one aggregate; the other aggregate, with an
\* enum field of two values, was registered after the run and has no
\* descriptor
C21_Witness ==
    /\ Collects = 1
    /\ Len(enums) = 1
    /\ Len(enums[1].Values) = 2
    /\ \E n \in Registered : \E i \in DOMAIN regAggregates[n].Fields :
          /\ Len(regAggregates[n].Fields[i].EnumValues) = 2
          /\ DescriptorsOf(enums, n, regAggregates[n].Fields[i].Name) = {}

(***************************************************************************)
(* C22 -- business junction aggregates                                     *)
(***************************************************************************)
\* the registry holds n with +soliton:manyToMany
Flagged(n) == n \in Registered /\ regAggregates[n].IsManyToMany

\* C22: an aggregate flagged +soliton:manyToMany is never the source of a
\* ManyToMany relation or of a junction table, AnalyzeRelations records
\* neither a relation nor an error from its aggregate-level refs, and at the
\* end of the run every per-aggregate generator has been invoked for it as
\* for any other registered aggregate.
C22_JunctionAggregateOrdinary ==
    /\ \A i \in DOMAIN relations :
          (relations[i].Type = "ManyToMany" \/ relations[i].Field = Nil)
              => ~ Flagged(relations[i].SourceAggregate)
    /\ \A i \in DOMAIN manyToManyTables :
          ~ Flagged(manyToManyTables[i].LeftAggregate)
    /\ analyzeErr # Nil => ~ Flagged(Deref(analyzeErr).Aggregate)
    /\ pc = "done" =>
          \A n \in Registered, m \in Registered :
              /\ \A kind \in PerRegistered :
                    Invocations(kind, n) = 1 /\ Invocations(kind, n) = Invocations(kind, m)
              /\ Invocations("entity", n) = Cardinality(DeclsOf(n))
              /\ Invocations("entity", n) >= 1

\* OrderItem is flagged and refers to Role, Role refers back: nothing is
\* synthesized and OrderItem has been generated like Role
C22_Witness ==
    /\ pc = "done"
    /\ Registered = {sOrderItem, sRole}
    /\ Flagged(sOrderItem) /\ ~ Flagged(sRole)
    /\ regAggregates[sOrderItem].Refs = <<sRole>>
    /\ regAggregates[sRole].Refs = <<sOrderItem>>
    /\ relations = <<>> /\ manyToManyTables = <<>>
    /\ \A kind \in PerRegistered \cup {"entity"} :
          Invocations(kind, sOrderItem) = 1 /\ Invocations(kind, sRole) = 1

(***************************************************************************)
(* Vocabulary of the framework properties                                  *)
(***************************************************************************)
\* caller p has made the call op and the call has returned
Returned(p, op) == procs[p].op = op /\ procs[p].at = "done"

\* the step in which the Update call of p returns
UpdateReturns(p) ==
    /\ procs[p].at \in {"idle", "first"}
    /\ procs'[p].op = "Update"
    /\ procs'[p].at = "done"

\* the step in which p issues db.Updates
IssuesUpdates(p) == procs[p].at = "idle" /\ procs'[p].op = "Update"

\* a database statement fails in the step
StatementFails == dbFaults' < dbFaults

(***************************************************************************)
(* C23 -- the result of BaseRepository.Update                              *)
(***************************************************************************)
\* C23 as stated: Update returns nil exactly when the update affected at
\* least one row; when it affected no row it returns ErrRecordNotFound if no
\* record with the entity's ID exists and ErrVersionConflict if one exists.
C23_UpdateResult ==
    [][\A p \in Callers :
          UpdateReturns(p) =>
              /\ procs'[p].result = NoError <=> procs'[p].rows > 0
              /\ procs'[p].rows = 0 =>
                    procs'[p].result = IF procs'[p].id \in DOMAIN store'
                                       THEN ErrVersionConflict
                                       ELSE ErrRecordNotFound]_vars

\* C23 amended: Update returns nil exactly when the update affected at least
\* one row (it changed the table); when it affected no row it returns the
\* database error if the update or the lookup that follows it failed with
\* one, and otherwise ErrRecordNotFound if no record with the entity's ID
\* exists when Update looks it up and ErrVersionConflict if one exists then.
C23_UpdateResultOrDbError ==
    [][\A p \in Callers :
          /\ IssuesUpdates(p) => (procs'[p].rows > 0 <=> store' # store)
          /\ UpdateReturns(p) =>
                /\ procs'[p].result = NoError <=> procs'[p].rows > 0
                /\ procs'[p].rows = 0 =>
                      procs'[p].result =
                          IF StatementFails
                          THEN (IF procs[p].at = "idle" THEN DbError("Updates")
                                ELSE DbError("First"))
                          ELSE IF procs'[p].id \in DOMAIN store'
                               THEN ErrVersionConflict
                               ELSE ErrRecordNotFound]_vars

\* the three results side by side: one Update changed the record, another
\* one found it changed; or one found no record and another one failed in
\* the database
C23_Witness ==
    \E p \in Callers, q \in Callers :
        /\ Returned(p, "Update") /\ Returned(q, "Update")
        /\ procs[p].id = procs[q].id
        /\ \/ procs[p].result = NoError /\ procs[q].result = ErrVersionConflict
           \/ procs[p].result = ErrRecordNotFound /\ procs[q].result = DbError("First")

(***************************************************************************)
(* C24 -- optimistic locking of Update                                     *)
(***************************************************************************)
\* C24: of two Update calls that carry the same version of the same record
\* at most one returns nil and the other one returns ErrVersionConflict, and
\* every successful Update increases the stored version by exactly one.
C24_OptimisticLock ==
    /\ [](\A p \in Callers, q \in Callers :
             (/\ p # q
              /\ Returned(p, "Update") /\ Returned(q, "Update")
              /\ procs[p].id = procs[q].id
              /\ procs[p].version = procs[q].version)
                 => /\ ~ (procs[p].result = NoError /\ procs[q].result = NoError)
                    /\ procs[p].result = NoError
                          => procs[q].result = ErrVersionConflict)
    /\ [][\A p \in Callers :
             (IssuesUpdates(p) /\ procs'[p].result = NoError)
                 => store'[procs'[p].id].Version = store[procs'[p].id].Version + 1]_vars

(***************************************************************************)
(* C25 -- BaseService.Delete                                               *)
(***************************************************************************)
\* C25: a Delete call that has returned has returned ErrEntityNotFound
\* without calling Remove when Exists reported false, the error of Exists
\* without calling Remove when Exists failed, and otherwise the result of the
\* one Remove call it made; it never calls the hard Delete.
C25_ServiceDelete ==
    \A p \in Callers :
        Returned(p, "Service.Delete") =>
            /\ procs[p].deletes = 0
            /\ procs[p].exists \in {"false", "error", "true"}
            /\ procs[p].exists = "false" =>
                  procs[p].result = ErrEntityNotFound /\ procs[p].removes = 0
            /\ procs[p].exists = "error" =>
                  procs[p].result = DbError("Count") /\ procs[p].removes = 0
            /\ procs[p].exists = "true" =>
                  procs[p].removes = 1 /\ procs[p].result = procs[p].removed

\* one Delete removed the record, the next one found it gone
C25_Witness ==
    \E p \in Callers, q \in Callers :
        /\ Returned(p, "Service.Delete") /\ Returned(q, "Service.Delete")
        /\ procs[p].id = procs[q].id
        /\ procs[p].exists = "true" /\ procs[p].removes = 1
        /\ procs[p].result = NoError
        /\ procs[q].exists = "false" /\ procs[q].removes = 0
        /\ procs[q].result = ErrEntityNotFound

C27_GoneMeansEntityNotFound ==
    \A p \in Callers :
        Returned(p, "Service.Delete") => procs[p].result # ErrRemoveNoRecord

(***************************************************************************)
(* C28 -- the aggregates the generators run over                           *)
(***************************************************************************)
\* C28: at the end of a run the entity generator has been invoked for the
\* same aggregates, as often, as every other per-aggregate generator, and
\* every descriptor it was invoked for is the descriptor the registry holds
\* under that name.
C28_SameAggregatesForEveryGenerator ==
    pc = "done" =>
        /\ \A n \in Registered : \A kind \in PerRegistered :
              Invocations("entity", n) = Invocations(kind, n)
        /\ \A i \in DOMAIN aggregates :
              /\ aggregates[i].Name \in Registered
              /\ aggregates[i] = regAggregates[aggregates[i].Name]

(***************************************************************************)
(* C29 -- the visiting order does not change what the analysis records     *)
(***************************************************************************)
Range(seq) == {seq[i] : i \in DOMAIN seq}

\* C29: when AnalyzeRelations has succeeded, it succeeds for every order in
\* which GetAll may return the registered aggregates and adds the same set
\* of relation records, and GenerateManyToManyTables derives the same set of
\* junction tables from them.
C29_OrderIndependentSets ==
    (AnalyzeReturned /\ analyzeErr = Nil) =>
        \A order \in GetAllOrders(regAggregates) :
            LET r == AnalyzeFrom(order, regAggregates, 1)
            IN  /\ r.err = Nil
                /\ Range(r.rels) = Range(relations)
                /\ Completed("junction") =>
                      Range(TablesFrom(r.rels, regAggregates, 1))
                          = Range(manyToManyTables)

\* two aggregates were visited, both added relations (one of them a
\* ManyToMany relation) and the junction table has been derived
C29_Witness ==
    /\ Completed("junction")
    /\ Len(visited) = 2
    /\ Len(manyToManyTables) > 0
    /\ \A n \in Registered :
          \E i \in DOMAIN relations : relations[i].SourceAggregate = n
    /\ \E i \in DOMAIN relations : relations[i].Type # "ManyToMany"

(***************************************************************************)
(* C30 -- the names of the enums                                           *)
(***************************************************************************)
\* C30: after one CollectEnums run the names of the enum descriptors are
\* pairwise distinct.
C30_EnumNamesDistinct ==
    Collects = 1 =>
        \A i \in DOMAIN enums, j \in DOMAIN enums :
            enums[i].Name = enums[j].Name => i = j

====
